---- MODULE Spec2Model ----
(***************************************************************************)
(* ReelDL native messaging host (src/reeldl_native_host.py).               *)
(*                                                                         *)
(* Text is a sequence of Unicode code points, a byte string a sequence of  *)
(* numbers in 0..255.  A JSON value is a tagged record; a JSON object is   *)
(* the sequence of its <<key, value>> pairs in insertion order, as a       *)
(* Python dict keeps them.                                                 *)
(***************************************************************************)
EXTENDS Integers, Sequences, FiniteSets, TLC

(***************************************************************************)
(* String literals of the source, as code points.                          *)
(***************************************************************************)
\* "action"
T_action == <<97, 99, 116, 105, 111, 110>>
\* "download"
T_download == <<100, 111, 119, 110, 108, 111, 97, 100>>
\* "pageUrl"
T_pageUrl == <<112, 97, 103, 101, 85, 114, 108>>
\* "status"
T_status == <<115, 116, 97, 116, 117, 115>>
\* "message"
T_message == <<109, 101, 115, 115, 97, 103, 101>>
\* "ok"
T_ok == <<111, 107>>
\* "error"
T_error == <<101, 114, 114, 111, 114>>
\* "Missing page URL for yt-dlp."
T_MissingUrl ==
  <<77, 105, 115, 115, 105, 110, 103, 32, 112, 97, 103, 101, 32, 85, 82, 76,
    32, 102, 111, 114, 32, 121, 116, 45, 100, 108, 112, 46>>
\* "yt-dlp was not found at "
T_NotFoundAt ==
  <<121, 116, 45, 100, 108, 112, 32, 119, 97, 115, 32, 110, 111, 116, 32,
    102, 111, 117, 110, 100, 32, 97, 116, 32>>
\* "yt-dlp failed with an unknown error."
T_UnknownError ==
  <<121, 116, 45, 100, 108, 112, 32, 102, 97, 105, 108, 101, 100, 32, 119,
    105, 116, 104, 32, 97, 110, 32, 117, 110, 107, 110, 111, 119, 110, 32,
    101, 114, 114, 111, 114, 46>>
\* "yt-dlp finished downloading the reel."
T_Finished ==
  <<121, 116, 45, 100, 108, 112, 32, 102, 105, 110, 105, 115, 104, 101, 100,
    32, 100, 111, 119, 110, 108, 111, 97, 100, 105, 110, 103, 32, 116, 104,
    101, 32, 114, 101, 101, 108, 46>>
\* "Unknown action received."
T_UnknownAction ==
  <<85, 110, 107, 110, 111, 119, 110, 32, 97, 99, 116, 105, 111, 110, 32,
    114, 101, 99, 101, 105, 118, 101, 100, 46>>
\* "yt-dlp.exe"
T_ytdlp_exe == <<121, 116, 45, 100, 108, 112, 46, 101, 120, 101>>
\* "yt-dlp"
T_ytdlp == <<121, 116, 45, 100, 108, 112>>
\* "--cookies-from-browser"
T_cookies ==
  <<45, 45, 99, 111, 111, 107, 105, 101, 115, 45, 102, 114, 111, 109, 45,
    98, 114, 111, 119, 115, 101, 114>>
\* "chrome"
T_chrome == <<99, 104, 114, 111, 109, 101>>

(***************************************************************************)
(* JSON values (what json.loads returns and json.dumps accepts).           *)
(***************************************************************************)
JNull == [t |-> "null"]
JBool(b) == [t |-> "bool", b |-> b]
JNum(n) == [t |-> "num", n |-> n]
JFloat(x) == [t |-> "float", x |-> x]
JStr(s) == [t |-> "str", s |-> s]
JArr(a) == [t |-> "arr", a |-> a]
JObj(o) == [t |-> "obj", o |-> o]

\* dict.get(key): the value stored under key, None when there is none
RECURSIVE Lookup(_, _, _)
Lookup(o, key, i) ==
  IF i > Len(o) THEN JNull
  ELSE IF o[i][1] = key THEN o[i][2]
  ELSE Lookup(o, key, i + 1)

Get(m, key) == Lookup(m.o, key, 1)

\* d[key] = value: the last value of a key stays, at the place of its first
RECURSIVE SetPair(_, _, _, _)
SetPair(o, key, value, i) ==
  IF i > Len(o) THEN Append(o, <<key, value>>)
  ELSE IF o[i][1] = key THEN [o EXCEPT ![i] = <<key, value>>]
  ELSE SetPair(o, key, value, i + 1)

HasKey(o, key) == \E i \in 1..Len(o) : o[i][1] = key

\* Python's == on decoded values: dicts compare by key set and values
RECURSIVE JEq(_, _)
JEq(x, y) ==
  /\ x.t = y.t
  /\ CASE x.t = "null" -> TRUE
       [] x.t = "bool" -> x.b = y.b
       [] x.t = "num" -> x.n = y.n
       [] x.t = "float" -> x.x = y.x
       [] x.t = "str" -> x.s = y.s
       [] x.t = "arr" ->
            /\ Len(x.a) = Len(y.a)
            /\ \A i \in 1..Len(x.a) : JEq(x.a[i], y.a[i])
       [] x.t = "obj" ->
            /\ Len(x.o) = Len(y.o)
            /\ \A i \in 1..Len(x.o) :
                 /\ HasKey(y.o, x.o[i][1])
                 /\ JEq(x.o[i][2], Lookup(y.o, x.o[i][1], 1))

(***************************************************************************)
(* json.dumps(payload) with its defaults: ensure_ascii, ", " and ": ".     *)
(***************************************************************************)
HexDigits == <<48, 49, 50, 51, 52, 53, 54, 55, 56, 57, 97, 98, 99, 100, 101, 102>>

Hex4(c) ==
  << HexDigits[((c \div 4096) % 16) + 1], HexDigits[((c \div 256) % 16) + 1],
     HexDigits[((c \div 16) % 16) + 1], HexDigits[(c % 16) + 1] >>

UEscape(c) == <<92, 117>> \o Hex4(c)

EscapeChar(c) ==
  CASE c = 34 -> <<92, 34>>
    [] c = 92 -> <<92, 92>>
    [] c = 10 -> <<92, 110>>
    [] c = 13 -> <<92, 114>>
    [] c = 9 -> <<92, 116>>
    [] c = 12 -> <<92, 102>>
    [] c = 8 -> <<92, 98>>
    [] c >= 65536 ->
         UEscape(55296 + ((c - 65536) \div 1024)) \o
         UEscape(56320 + ((c - 65536) % 1024))
    [] c < 32 \/ c > 126 -> UEscape(c)
    [] OTHER -> <<c>>

\* the escapes of the characters of s, one after the other
RECURSIVE EscapeText(_)
EscapeText(s) ==
  IF Len(s) = 0 THEN <<>>
  ELSE IF Len(s) = 1 THEN EscapeChar(s[1])
  ELSE EscapeText(SubSeq(s, 1, Len(s) \div 2)) \o
       EscapeText(SubSeq(s, (Len(s) \div 2) + 1, Len(s)))

RECURSIVE Digits(_)
Digits(n) ==
  IF n < 10 THEN <<48 + n>> ELSE Digits(n \div 10) \o <<48 + (n % 10)>>

IntText(n) == IF n < 0 THEN <<45>> \o Digits(-n) ELSE Digits(n)

RECURSIVE Dumps(_), DumpItems(_), DumpPairs(_)
Dumps(v) ==
  CASE v.t = "null" -> <<110, 117, 108, 108>>
    [] v.t = "bool" ->
         IF v.b THEN <<116, 114, 117, 101>> ELSE <<102, 97, 108, 115, 101>>
    [] v.t = "num" -> IntText(v.n)
    [] v.t = "float" -> v.x
    [] v.t = "str" -> <<34>> \o EscapeText(v.s) \o <<34>>
    [] v.t = "arr" -> <<91>> \o DumpItems(v.a) \o <<93>>
    [] v.t = "obj" -> <<123>> \o DumpPairs(v.o) \o <<125>>

DumpItems(a) ==
  IF Len(a) = 0 THEN <<>>
  ELSE Dumps(Head(a)) \o
       (IF Len(a) = 1 THEN <<>> ELSE <<44, 32>> \o DumpItems(Tail(a)))

DumpPairs(o) ==
  IF Len(o) = 0 THEN <<>>
  ELSE <<34>> \o EscapeText(Head(o)[1]) \o <<34, 58, 32>> \o Dumps(Head(o)[2]) \o
       (IF Len(o) = 1 THEN <<>> ELSE <<44, 32>> \o DumpPairs(Tail(o)))

(***************************************************************************)
(* str.encode("utf-8") and bytes.decode("utf-8").                          *)
(***************************************************************************)
Utf8EncodeChar(c) ==
  IF c < 128 THEN <<c>>
  ELSE IF c < 2048 THEN <<192 + (c \div 64), 128 + (c % 64)>>
  ELSE IF c < 65536 THEN
    <<224 + (c \div 4096), 128 + ((c \div 64) % 64), 128 + (c % 64)>>
  ELSE
    << 240 + (c \div 262144), 128 + ((c \div 4096) % 64),
       128 + ((c \div 64) % 64), 128 + (c % 64) >>

\* the encodings of the characters of s, one after the other
RECURSIVE Utf8Encode(_)
Utf8Encode(s) ==
  IF Len(s) = 0 THEN <<>>
  ELSE IF Len(s) = 1 THEN Utf8EncodeChar(s[1])
  ELSE Utf8Encode(SubSeq(s, 1, Len(s) \div 2)) \o
       Utf8Encode(SubSeq(s, (Len(s) \div 2) + 1, Len(s)))

ByteAt(b, i) == IF i >= 1 /\ i <= Len(b) THEN b[i] ELSE -1

IsCont(x) == x >= 128 /\ x <= 191

\* the number of bytes the lead byte c announces, 0 for a byte that leads
\* nothing
Utf8Width(c) ==
  IF c < 128 THEN 1
  ELSE IF c >= 194 /\ c <= 223 THEN 2
  ELSE IF c >= 224 /\ c <= 239 THEN 3
  ELSE IF c >= 240 /\ c <= 244 THEN 4
  ELSE 0

\* the byte at i leads a well-formed sequence
Utf8LeadOk(b, i) ==
  /\ Utf8Width(b[i]) > 0
  /\ \A k \in (i + 1)..(i + Utf8Width(b[i]) - 1) : IsCont(ByteAt(b, k))
  /\ (b[i] = 224 => ByteAt(b, i + 1) >= 160)
  /\ (b[i] = 237 => ByteAt(b, i + 1) <= 159)
  /\ (b[i] = 240 => ByteAt(b, i + 1) >= 144)
  /\ (b[i] = 244 => ByteAt(b, i + 1) <= 143)

\* the continuation byte at i belongs to the sequence of a lead byte
Utf8ContOk(b, i) ==
  \E j \in (i - 3)..(i - 1) :
    /\ j >= 1
    /\ ~IsCont(b[j])
    /\ i <= j + Utf8Width(b[j]) - 1
    /\ \A k \in (j + 1)..i : IsCont(b[k])

\* the code point of the sequence the byte at i leads
Utf8CodePoint(b, i) ==
  CASE Utf8Width(b[i]) = 1 -> b[i]
    [] Utf8Width(b[i]) = 2 -> (b[i] - 192) * 64 + (b[i + 1] - 128)
    [] Utf8Width(b[i]) = 3 ->
         (b[i] - 224) * 4096 + (b[i + 1] - 128) * 64 + (b[i + 2] - 128)
    [] Utf8Width(b[i]) = 4 ->
         (b[i] - 240) * 262144 + (b[i + 1] - 128) * 4096
           + (b[i + 2] - 128) * 64 + (b[i + 3] - 128)

\* bytes.decode("utf-8"): [ok, s], ok FALSE where it raises
\* UnicodeDecodeError; the text is the code points of the lead bytes in order
Utf8Decode(b) ==
  LET IsLead(i) == ~IsCont(b[i])
      Text(leads) == [k \in 1..Len(leads) |-> Utf8CodePoint(b, leads[k])]
  IN
  IF \A i \in 1..Len(b) :
       IF IsCont(b[i]) THEN Utf8ContOk(b, i) ELSE Utf8LeadOk(b, i)
  THEN [ok |-> TRUE, s |-> Text(SelectSeq([i \in 1..Len(b) |-> i], IsLead))]
  ELSE [ok |-> FALSE, s |-> <<>>]

(***************************************************************************)
(* json.loads(text): the scanner of json.decoder / json.scanner.  A result *)
(* is [ok, v, i]: the value and the position after it, ok FALSE where the  *)
(* decoder raises JSONDecodeError.                                         *)
(***************************************************************************)
Fail == [ok |-> FALSE, v |-> JNull, i |-> 0]
Ok(v, i) == [ok |-> TRUE, v |-> v, i |-> i]

At(s, i) == IF i >= 1 /\ i <= Len(s) THEN s[i] ELSE -1

RECURSIVE SkipWs(_, _)
SkipWs(s, i) == IF At(s, i) \in {32, 9, 10, 13} THEN SkipWs(s, i + 1) ELSE i

HexVal(c) ==
  IF c >= 48 /\ c <= 57 THEN c - 48
  ELSE IF c >= 97 /\ c <= 102 THEN c - 87
  ELSE IF c >= 65 /\ c <= 70 THEN c - 55
  ELSE -1

\* _decode_uXXXX: the four hex digits at i..i+3, -1 when they are not
Hex4Val(s, i) ==
  LET a == HexVal(At(s, i))
      b == HexVal(At(s, i + 1))
      c == HexVal(At(s, i + 2))
      d == HexVal(At(s, i + 3))
  IN IF a < 0 \/ b < 0 \/ c < 0 \/ d < 0 THEN -1
     ELSE a * 4096 + b * 256 + c * 16 + d

\* the character a backslash escape stands for, -1 for an invalid escape
Unescape(c) ==
  CASE c = 34 -> 34
    [] c = 92 -> 92
    [] c = 47 -> 47
    [] c = 98 -> 8
    [] c = 102 -> 12
    [] c = 110 -> 10
    [] c = 114 -> 13
    [] c = 116 -> 9
    [] OTHER -> -1

\* py_scanstring, strict, for the string whose opening quote is at i - 1.
\* The scan is stated position by position: a backslash opens an escape when
\* an even number of backslashes stand right before it (the scan takes them
\* in pairs), the string closes at the first quote that no escape takes, and
\* any ill-formed escape or control character before it makes the scan raise.

\* how many backslashes stand right before p, from i on
BackslashRun(s, i, p) ==
  CHOOSE r \in 0..(p - i) :
    /\ r = p - i \/ s[p - 1 - r] # 92
    /\ \A q \in 1..r : s[p - q] = 92

\* the backslash at p opens an escape
OpensEscape(s, i, p) == At(s, p) = 92 /\ p >= i /\ BackslashRun(s, i, p) % 2 = 0

\* a \uXXXX escape starts at p
OpensUnicode(s, i, p) == OpensEscape(s, i, p) /\ At(s, p + 1) = 117

\* a \uXXXX escape for a high (a low) surrogate starts at p
HighSurrogate(s, i, p) ==
  OpensUnicode(s, i, p) /\ Hex4Val(s, p + 2) >= 55296 /\ Hex4Val(s, p + 2) <= 56319
LowSurrogate(s, i, p) ==
  OpensUnicode(s, i, p) /\ Hex4Val(s, p + 2) >= 56320 /\ Hex4Val(s, p + 2) <= 57343

\* the scan raises at p: a control character, an escape that is none
ScanError(s, i, p) ==
  \/ s[p] < 32
  \/ /\ OpensEscape(s, i, p)
     /\ IF At(s, p + 1) = 117 THEN Hex4Val(s, p + 2) < 0
        ELSE Unescape(At(s, p + 1)) < 0

\* a character of the result starts at p: p is not taken by the escape that
\* a backslash before it opens, nor the low half of a surrogate pair
StartsChar(s, i, p) ==
  /\ BackslashRun(s, i, p) % 2 = 0
  /\ ~\E q \in (p - 5)..(p - 2) : OpensUnicode(s, i, q)
  /\ ~(LowSurrogate(s, i, p) /\ HighSurrogate(s, i, p - 6))

\* the character that starts at p
CharAt(s, i, p) ==
  IF ~OpensEscape(s, i, p) THEN s[p]
  ELSE IF At(s, p + 1) # 117 THEN Unescape(At(s, p + 1))
  ELSE IF HighSurrogate(s, i, p) /\ LowSurrogate(s, i, p + 6) THEN
    65536 + (Hex4Val(s, p + 2) - 55296) * 1024 + (Hex4Val(s, p + 8) - 56320)
  ELSE Hex4Val(s, p + 2)

ScanString(s, i) ==
  LET quotes == { j \in i..Len(s) : s[j] = 34 /\ BackslashRun(s, i, j) % 2 = 0 }
      Starts(p) == StartsChar(s, i, p)
      Text(starts) == [k \in 1..Len(starts) |-> CharAt(s, i, starts[k])]
      Closed(close) ==
        IF \E p \in i..(close - 1) : ScanError(s, i, p) THEN Fail
        ELSE Ok(JStr(Text(SelectSeq([k \in 1..(close - i) |-> i - 1 + k], Starts))),
                close + 1)
  IN
  IF quotes = {} THEN Fail
  ELSE Closed(CHOOSE j \in quotes : \A k \in quotes : j <= k)

IsDigit(c) == c >= 48 /\ c <= 57

RECURSIVE DigitsEnd(_, _)
DigitsEnd(s, i) == IF IsDigit(At(s, i)) THEN DigitsEnd(s, i + 1) ELSE i

RECURSIVE DigitsVal(_, _, _, _)
DigitsVal(s, i, j, acc) ==
  IF i >= j THEN acc ELSE DigitsVal(s, i + 1, j, acc * 10 + (s[i] - 48))

\* NUMBER_RE: (-?(?:0|[1-9]\d*))(\.\d+)?([eE][-+]?\d+)?
\* d0..d1 are the integer digits, f1 ends the fraction, e1 the exponent
ScanNumber(s, i) ==
  LET neg == At(s, i) = 45
      Matched(d0, d1, e1) ==
        IF d1 = d0 THEN Fail
        ELSE IF e1 > d1 THEN Ok(JFloat(SubSeq(s, i, e1 - 1)), e1)
        ELSE Ok(JNum(IF neg THEN 0 - DigitsVal(s, d0, d1, 0)
                     ELSE DigitsVal(s, d0, d1, 0)), d1)
      Exponent(d0, d1, f1, x0) ==
        Matched(d0, d1,
                IF At(s, f1) \in {101, 69} /\ IsDigit(At(s, x0))
                THEN DigitsEnd(s, x0) ELSE f1)
      Fraction(d0, d1, f1) ==
        Exponent(d0, d1, f1,
                 IF At(s, f1 + 1) \in {43, 45} THEN f1 + 2 ELSE f1 + 1)
      Integer(d0, d1) ==
        Fraction(d0, d1,
                 IF At(s, d1) = 46 /\ IsDigit(At(s, d1 + 1))
                 THEN DigitsEnd(s, d1 + 1) ELSE d1)
      Sign(d0) ==
        Integer(d0, IF At(s, d0) = 48 THEN d0 + 1 ELSE DigitsEnd(s, d0))
  IN Sign(IF neg THEN i + 1 ELSE i)

IsAt(s, i, word) ==
  i + Len(word) - 1 <= Len(s) /\ SubSeq(s, i, i + Len(word) - 1) = word

RECURSIVE ScanOnce(_, _), ScanArrayItems(_, _, _), ScanObjectPairs(_, _, _)
\* py_make_scanner._scan_once
ScanOnce(s, i) ==
  LET c == At(s, i)
      j == SkipWs(s, i + 1)
      Number(n) ==
        IF n.ok THEN n
        ELSE IF IsAt(s, i, <<45, 73, 110, 102, 105, 110, 105, 116, 121>>)
        THEN Ok(JFloat(SubSeq(s, i, i + 8)), i + 9)
        ELSE Fail
  IN
  CASE c = 34 -> ScanString(s, i + 1)
    [] c = 123 ->
         IF At(s, j) = 125 THEN Ok(JObj(<<>>), j + 1)
         ELSE IF At(s, j) = 34 THEN ScanObjectPairs(s, j + 1, <<>>)
         ELSE Fail
    [] c = 91 ->
         IF At(s, j) = 93 THEN Ok(JArr(<<>>), j + 1)
         ELSE ScanArrayItems(s, j, <<>>)
    [] c = 110 /\ IsAt(s, i, <<110, 117, 108, 108>>) -> Ok(JNull, i + 4)
    [] c = 116 /\ IsAt(s, i, <<116, 114, 117, 101>>) -> Ok(JBool(TRUE), i + 4)
    [] c = 102 /\ IsAt(s, i, <<102, 97, 108, 115, 101>>) -> Ok(JBool(FALSE), i + 5)
    [] c = 45 \/ IsDigit(c) -> Number(ScanNumber(s, i))
    [] c = 78 /\ IsAt(s, i, <<78, 97, 78>>) -> Ok(JFloat(SubSeq(s, i, i + 2)), i + 3)
    [] c = 73 /\ IsAt(s, i, <<73, 110, 102, 105, 110, 105, 116, 121>>) ->
         Ok(JFloat(SubSeq(s, i, i + 7)), i + 8)
    [] OTHER -> Fail

\* JSONArray: i is the position of the next item
ScanArrayItems(s, i, acc) ==
  LET Item(r, j) ==
        IF ~r.ok THEN Fail
        ELSE IF At(s, j) = 93 THEN Ok(JArr(Append(acc, r.v)), j + 1)
        ELSE IF At(s, j) = 44 THEN
          ScanArrayItems(s, SkipWs(s, j + 1), Append(acc, r.v))
        ELSE Fail
      Scanned(r) == Item(r, SkipWs(s, r.i))
  IN Scanned(ScanOnce(s, i))

\* JSONObject: i is the position after the opening quote of the next key
ScanObjectPairs(s, i, acc) ==
  LET Pair(k, r, j, pairs) ==
        IF ~r.ok THEN Fail
        ELSE IF At(s, j) = 125 THEN Ok(JObj(pairs), j + 1)
        ELSE IF At(s, j) = 44 /\ At(s, SkipWs(s, j + 1)) = 34 THEN
          ScanObjectPairs(s, SkipWs(s, j + 1) + 1, pairs)
        ELSE Fail
      Value(k, r) == Pair(k, r, SkipWs(s, r.i), SetPair(acc, k.v.s, r.v, 1))
      Colon(k, c) ==
        IF At(s, c) # 58 THEN Fail
        ELSE Value(k, ScanOnce(s, SkipWs(s, c + 1)))
      Key(k) == IF ~k.ok THEN Fail ELSE Colon(k, SkipWs(s, k.i))
  IN Key(ScanString(s, i))

\* JSONDecoder.decode: one value, white space around it, nothing else
Loads(s) ==
  LET Decoded(r) == IF r.ok /\ SkipWs(s, r.i) = Len(s) + 1 THEN r ELSE Fail
  IN Decoded(ScanOnce(s, SkipWs(s, 1)))

(***************************************************************************)
(* Helpers of the host: str.strip, os.path.join, int <-> 4 bytes.          *)
(***************************************************************************)
\* str.isspace for one character
IsSpace(c) ==
  \/ c \in {9, 10, 11, 12, 13, 28, 29, 30, 31, 32, 133, 160, 5760}
  \/ c >= 8192 /\ c <= 8202
  \/ c \in {8232, 8233, 8239, 8287, 12288}

RECURSIVE LStrip(_)
LStrip(s) ==
  IF Len(s) > 0 /\ IsSpace(Head(s)) THEN LStrip(Tail(s)) ELSE s

RECURSIVE RStrip(_)
RStrip(s) ==
  IF Len(s) > 0 /\ IsSpace(s[Len(s)]) THEN RStrip(SubSeq(s, 1, Len(s) - 1))
  ELSE s

\* str.strip()
Strip(s) == RStrip(LStrip(s))

\* buffer.read(n): up to n bytes, fewer only at the end of the stream
Take(b, n) == SubSeq(b, 1, IF n < Len(b) THEN n ELSE Len(b))
Drop(b, n) == SubSeq(b, (IF n < Len(b) THEN n ELSE Len(b)) + 1, Len(b))

\* int.from_bytes(raw_length, byteorder="little"), of four bytes
FromBytesLittle(b) == b[1] + 256 * b[2] + 65536 * b[3] + 16777216 * b[4]

\* the length written most significant byte first
ToBytesBig(n) ==
  <<(n \div 16777216) % 256, (n \div 65536) % 256, (n \div 256) % 256, n % 256>>

\* len(encoded_payload).to_bytes(4, byteorder="little")
ToBytesLittle(n) ==
  <<n % 256, (n \div 256) % 256, (n \div 65536) % 256, (n \div 16777216) % 256>>

\* os.path.join(script_directory, executable_name), of an absolute directory
\* with a folder part and a relative name
PathJoin(os_name, dir, name) ==
  LET seps == IF os_name = "nt" THEN {92, 47} ELSE {47}
      sep == IF os_name = "nt" THEN 92 ELSE 47
  IN IF Len(dir) = 0 \/ dir[Len(dir)] \in seps THEN dir \o name
     ELSE dir \o <<sep>> \o name

(***************************************************************************)
(* The functions of the host.                                              *)
(***************************************************************************)
\* read_native_message on the bytes left on standard input: what is left
\* after the call, the exception it raised ("none" when it returned), the
\* value returned (None is JNull), whether a whole frame was there, and the
\* source line of the statement the call left by
read_native_message(in) ==
  LET raw_length == Take(in, 4)
      after_length == Drop(in, 4)
      None(rest, line) ==
        [ raised |-> "none", value |-> JNull, framed |-> FALSE, rest |-> rest,
          line |-> line ]
      \* line 31
      Decoded(text, parsed, rest) ==
        IF ~text.ok THEN
          [ raised |-> "UnicodeDecodeError", value |-> JNull, framed |-> TRUE,
            rest |-> rest, line |-> 31 ]
        ELSE IF ~parsed.ok THEN
          [ raised |-> "JSONDecodeError", value |-> JNull, framed |-> TRUE,
            rest |-> rest, line |-> 31 ]
        ELSE
          [ raised |-> "none", value |-> parsed.v, framed |-> TRUE,
            rest |-> rest, line |-> 31 ]
      Decode(text, rest) == Decoded(text, Loads(text.s), rest)
      \* lines 27-29
      Payload(message_length, message_bytes, rest) ==
        IF Len(message_bytes) < message_length THEN None(rest, 29)
        ELSE Decode(Utf8Decode(message_bytes), rest)
      \* lines 23-25
      Length(message_length) ==
        IF message_length = 0 THEN None(after_length, 25)
        ELSE Payload(message_length, Take(after_length, message_length),
                     Drop(after_length, message_length))
  IN
  IF Len(raw_length) < 4 THEN None(after_length, 21)
  ELSE Length(FromBytesLittle(raw_length))

\* json.dumps(payload).encode("utf-8")
encoded_payload(payload) == Utf8Encode(Dumps(payload))

\* the bytes send_native_message writes for one payload
Frame(payload) ==
  ToBytesLittle(Len(encoded_payload(payload))) \o encoded_payload(payload)

resolve_yt_dlp_path(os_name, script_directory) ==
  PathJoin(os_name, script_directory,
           IF os_name = "nt" THEN T_ytdlp_exe ELSE T_ytdlp)

\* the URL is passed as validation saw it, trimmed
build_yt_dlp_command_trimmed(yt_dlp_path, page_url) ==
  <<yt_dlp_path, T_cookies, T_chrome, Strip(page_url)>>

build_yt_dlp_command(yt_dlp_path, page_url) ==
  <<yt_dlp_path, T_cookies, T_chrome, page_url>>

\* a response dictionary {"status": ..., "message": ...}
Response(status, message) ==
  JObj(<< <<T_status, JStr(status)>>, <<T_message, JStr(message)>> >>)

\* the check without strip(): white space counts as a URL
PageUrlInvalidUnstripped(page_url) ==
  IF page_url.t # "str" THEN TRUE ELSE Len(page_url.s) = 0

\* the check of the type alone: the empty string counts as a URL
PageUrlInvalidTypeOnly(page_url) == page_url.t # "str"

\* not isinstance(page_url, str) or not page_url.strip()
PageUrlInvalid(page_url) ==
  IF page_url.t # "str" THEN TRUE ELSE Len(Strip(page_url.s)) = 0

\* the message without the path
NotFoundResponseNoPath(yt_dlp_path) ==
  Response(T_error, T_NotFoundAt \o <<46>>)

MissingUrlResponse == Response(T_error, T_MissingUrl)

NotFoundResponse(yt_dlp_path) ==
  Response(T_error, T_NotFoundAt \o yt_dlp_path \o <<46>>)

UnknownActionResponse == Response(T_error, T_UnknownAction)

\* stdout before stderr
ErrorOutputStdoutFirst(stderr, stdout) ==
  IF Len(Strip(stdout)) > 0 THEN Strip(stdout) ELSE Strip(stderr)

\* completed_process.stderr.strip() or completed_process.stdout.strip()
ErrorOutput(stderr, stdout) ==
  IF Len(Strip(stderr)) > 0 THEN Strip(stderr) ELSE Strip(stdout)

\* the exit status is not looked at
CompletedResponseIgnoresStatus(completed_process) ==
  Response(T_ok, T_Finished)

\* the error output is the message even when it is empty
CompletedResponseNoFallback(completed_process) ==
  IF completed_process.returncode # 0 THEN
    Response(T_error,
             ErrorOutput(completed_process.stderr, completed_process.stdout))
  ELSE Response(T_ok, T_Finished)

\* the response of handle_download_request once the child has exited
CompletedResponse(completed_process) ==
  IF completed_process.returncode # 0 THEN
    LET error_output ==
          ErrorOutput(completed_process.stderr, completed_process.stdout)
    IN Response(T_error,
                IF Len(error_output) > 0 THEN error_output ELSE T_UnknownError)
  ELSE Response(T_ok, T_Finished)

\* a missing action taken for a download
IsDownloadOrMissing(message) ==
  Get(message, T_action) \in {JStr(T_download), JNull}

\* action == "download"
IsDownload(message) == Get(message, T_action) = JStr(T_download)

\* subprocess refuses an argument with an embedded null character
HasNul(s) == \E i \in 1..Len(s) : s[i] = 0

(***************************************************************************)
(* The peer and the machine: what may arrive on standard input, where the  *)
(* host is installed, what the downloader may do.                          *)
(***************************************************************************)
\* "https://x"
U_x == <<104, 116, 116, 112, 115, 58, 47, 47, 120>>
\* " https://x "
U_padded == <<32, 104, 116, 116, 112, 115, 58, 47, 47, 120, 32>>
\* " \t"
U_blank == <<32, 9>>
\* "a\x00b"
U_nul == <<97, 0, 98>>
\* "ping"
T_ping == <<112, 105, 110, 103>>

DownloadMessage(page_url) ==
  JObj(<< <<T_action, JStr(T_download)>>, <<T_pageUrl, page_url>> >>)

\* the JSON values the peer sends in well-formed frames
PeerValues ==
  { DownloadMessage(JStr(U_padded)),
    DownloadMessage(JStr(U_nul)),
    DownloadMessage(JStr(<<>>)),
    DownloadMessage(JStr(U_blank)),
    DownloadMessage(JNum(5)),
    JObj(<< <<T_action, JStr(T_download)>> >>),
    JObj(<< <<T_action, JStr(T_ping)>> >>),
    JObj(<< <<T_action, JNull>>, <<T_pageUrl, JStr(U_x)>> >>),
    JObj(<<>>),
    JArr(<< JNum(1) >>),
    JNull }

\* the length prefix and the payload bytes of one frame
RawFrame(payload_bytes) == ToBytesLittle(Len(payload_bytes)) \o payload_bytes

\* {"action":"download","pageUrl":"https://x"} as a browser writes it
CompactDownload ==
  <<123, 34, 97, 99, 116, 105, 111, 110, 34, 58, 34, 100, 111, 119, 110, 108,
    111, 97, 100, 34, 44, 34, 112, 97, 103, 101, 85, 114, 108, 34, 58, 34,
    104, 116, 116, 112, 115, 58, 47, 47, 120, 34, 125>>

\* {"action": "download"   (the object is not closed)
BrokenJson ==
  <<123, 34, 97, 99, 116, 105, 111, 110, 34, 58, 32, 34, 100, 111, 119, 110,
    108, 111, 97, 100, 34>>

\* {"a": "\xff"}   (not UTF-8)
BrokenUtf8 == <<123, 34, 97, 34, 58, 32, 34, 255, 34, 125>>

\* what the peer may put on the stream in one piece: whole frames, and the
\* pieces a closing stream leaves
PeerChunks ==
  { RawFrame(Utf8Encode(Dumps(v))) : v \in PeerValues }
  \cup { RawFrame(CompactDownload), RawFrame(BrokenJson), RawFrame(BrokenUtf8),
         <<0, 0, 0, 0>>, <<17, 0>>, <<17, 0, 0, 0, 123, 34>> }

MaxFrames == 2

RECURSIVE Streams(_)
Streams(n) ==
  IF n = 0 THEN { <<>> }
  ELSE Streams(n - 1) \cup { s \o c : s \in Streams(n - 1), c \in PeerChunks }

\* "/opt/reeldl"
D_posix == <<47, 111, 112, 116, 47, 114, 101, 101, 108, 100, 108>>
\* "C:\reeldl"
D_nt == <<67, 58, 92, 114, 101, 101, 108, 100, 108>>

\* os.name and the directory of the script
Hosts ==
  { [os_name |-> "posix", script_directory |-> D_posix],
    [os_name |-> "nt", script_directory |-> D_nt] }

\* what a downloader that ran may leave: exit status and captured text
ReturnCodes == {0, 1}
StdoutTexts == { <<>>, <<100, 111, 110, 101, 10>> }
StderrTexts ==
  { <<>>, <<32, 32, 10>>,
    <<32, 110, 101, 116, 119, 111, 114, 107, 32, 101, 114, 114, 111, 114, 10>> }

(***************************************************************************)
(* State.                                                                  *)
(***************************************************************************)
VARIABLES
  stdin,             \* bytes of standard input not read yet; it ends after them
  outbuf,            \* sys.stdout.buffer: bytes written and not flushed yet
  stdout,            \* bytes the peer has received
  pc,                \* where run_native_host is
  os_name,           \* os.name
  script_directory,  \* run_native_host's script_directory
  incoming_message,  \* run_native_host's incoming_message
  response,          \* run_native_host's response
  child,             \* the child process of subprocess.run
  cur,               \* the current request: what the file system and the child did
  fault,             \* the exception that ended the host, "none" so far
  read_exit,         \* the line the last read_native_message left by, 0 so far
  reqs,              \* the messages read_native_message has returned, in order
  sent               \* the responses send_native_message has written, in order

vars ==
  << stdin, outbuf, stdout, pc, os_name, script_directory, incoming_message,
     response, child, cur, fault, read_exit, reqs, sent >>

NoChild == [running |-> FALSE, args |-> <<>>, cwd |-> <<>>]

NoCompleted ==
  [done |-> FALSE, returncode |-> 0, stdout |-> <<>>, stderr |-> <<>>]

\* nothing has happened yet for the current request
Fresh == [exists |-> "unchecked", spawns |-> 0, completed |-> NoCompleted]

Init ==
  /\ stdin \in Streams(MaxFrames)
  /\ \E h \in Hosts :
       /\ os_name = h.os_name
       /\ script_directory = h.script_directory
  /\ outbuf = <<>>
  /\ stdout = <<>>
  /\ pc = "read"
  /\ incoming_message = JNull
  /\ response = JNull
  /\ child = NoChild
  /\ cur = Fresh
  /\ fault = "none"
  /\ read_exit = 0
  /\ reqs = <<>>
  /\ sent = <<>>

(***************************************************************************)
(* run_native_host: one read, one dispatch, one send per turn of the loop. *)
(***************************************************************************)
\* line 123: read_native_message returns a message
ReadMessage ==
  /\ pc = "read"
  /\ \E r \in {read_native_message(stdin)} :
       /\ r.raised = "none"
       /\ r.value # JNull
       /\ stdin' = r.rest
       /\ incoming_message' = r.value
       /\ reqs' = Append(reqs, r.value)
       /\ read_exit' = r.line
  /\ pc' = "dispatch"
  /\ cur' = Fresh
  /\ response' = JNull
  /\ UNCHANGED << fault, outbuf, stdout, os_name, script_directory, child, sent >>

\* a partial frame is answered with an error
ReadNoneAnswersPartialFrame ==
  /\ pc = "read"
  /\ \E r \in {read_native_message(stdin)} :
       /\ r.raised = "none"
       /\ r.value = JNull
       /\ stdin' = r.rest
       /\ read_exit' = r.line
       /\ pc' = IF r.line = 29 THEN "send" ELSE "done"
       /\ response' = IF r.line = 29 THEN UnknownActionResponse ELSE JNull
  /\ incoming_message' = JNull
  /\ cur' = Fresh
  /\ UNCHANGED << outbuf, stdout, os_name, script_directory, child, fault, reqs, sent >>

\* an empty frame is skipped and the next frame read
ReadNoneSkipsEmptyFrame ==
  /\ pc = "read"
  /\ \E r \in {read_native_message(stdin)} :
       /\ r.raised = "none"
       /\ r.value = JNull
       /\ stdin' = r.rest
       /\ read_exit' = r.line
       /\ pc' = IF r.line = 25 THEN "read" ELSE "done"
  /\ incoming_message' = JNull
  /\ cur' = Fresh
  /\ response' = JNull
  /\ UNCHANGED << outbuf, stdout, os_name, script_directory, child, fault, reqs, sent >>

\* lines 123-125: read_native_message returns None, the loop ends
ReadNone ==
  /\ pc = "read"
  /\ \E r \in {read_native_message(stdin)} :
       /\ r.raised = "none"
       /\ r.value = JNull
       /\ stdin' = r.rest
       /\ read_exit' = r.line
  /\ pc' = "done"
  /\ incoming_message' = JNull
  /\ cur' = Fresh
  /\ response' = JNull
  /\ UNCHANGED << outbuf, stdout, os_name, script_directory, child, fault, reqs, sent >>

\* the loop catches the decoding error and reads on
ReadRaisesSwallowed ==
  /\ pc = "read"
  /\ \E r \in {read_native_message(stdin)} :
       /\ r.raised # "none"
       /\ stdin' = r.rest
       /\ read_exit' = r.line
  /\ pc' = "read"
  /\ cur' = Fresh
  /\ response' = JNull
  /\ UNCHANGED << outbuf, stdout, os_name, script_directory, incoming_message,
                  child, fault, reqs, sent >>

\* line 31 raises UnicodeDecodeError or JSONDecodeError: nothing catches it
ReadRaises ==
  /\ pc = "read"
  /\ \E r \in {read_native_message(stdin)} :
       /\ r.raised # "none"
       /\ stdin' = r.rest
       /\ fault' = r.raised
       /\ read_exit' = r.line
  /\ pc' = "fault"
  /\ cur' = Fresh
  /\ response' = JNull
  /\ UNCHANGED << outbuf, stdout, os_name, script_directory, incoming_message,
                  child, reqs, sent >>

\* line 127: incoming_message.get on a value that is no dict raises
\* AttributeError
DispatchRaises ==
  /\ pc = "dispatch"
  /\ incoming_message.t # "obj"
  /\ pc' = "fault"
  /\ fault' = "AttributeError"
  /\ UNCHANGED << read_exit, stdin, outbuf, stdout, os_name, script_directory,
                  incoming_message, response, child, cur, reqs, sent >>

\* lines 127-131: any action but "download"
DispatchUnknown ==
  /\ pc = "dispatch"
  /\ incoming_message.t = "obj"
  /\ ~IsDownload(incoming_message)
  /\ response' = UnknownActionResponse
  /\ pc' = "send"
  /\ UNCHANGED << read_exit, stdin, outbuf, stdout, os_name, script_directory,
                  incoming_message, child, cur, fault, reqs, sent >>

\* lines 86-88: handle_download_request refuses the page URL
DownloadInvalidUrl ==
  /\ pc = "dispatch"
  /\ incoming_message.t = "obj"
  /\ IsDownload(incoming_message)
  /\ PageUrlInvalid(Get(incoming_message, T_pageUrl))
  /\ response' = MissingUrlResponse
  /\ pc' = "send"
  /\ UNCHANGED << read_exit, stdin, outbuf, stdout, os_name, script_directory,
                  incoming_message, child, cur, fault, reqs, sent >>

\* lines 90-95: os.path.exists(yt_dlp_path) is false
DownloadNotFound ==
  /\ pc = "dispatch"
  /\ incoming_message.t = "obj"
  /\ IsDownload(incoming_message)
  /\ ~PageUrlInvalid(Get(incoming_message, T_pageUrl))
  /\ cur' = [cur EXCEPT !.exists = "missing"]
  /\ response' = NotFoundResponse(resolve_yt_dlp_path(os_name, script_directory))
  /\ pc' = "send"
  /\ UNCHANGED << read_exit, stdin, outbuf, stdout, os_name, script_directory,
                  incoming_message, child, fault, reqs, sent >>

\* the child is started and the answer given without waiting for it
DownloadSpawnNoWait ==
  /\ pc = "dispatch"
  /\ incoming_message.t = "obj"
  /\ IsDownload(incoming_message)
  /\ ~PageUrlInvalid(Get(incoming_message, T_pageUrl))
  /\ ~HasNul(Get(incoming_message, T_pageUrl).s)
  /\ cur' = [cur EXCEPT !.exists = "found", !.spawns = cur.spawns + 1]
  /\ child' =
       [ running |-> TRUE,
         args |-> build_yt_dlp_command(
                    resolve_yt_dlp_path(os_name, script_directory),
                    Get(incoming_message, T_pageUrl).s),
         cwd |-> script_directory ]
  /\ response' = Response(T_ok, T_Finished)
  /\ pc' = "send"
  /\ UNCHANGED << read_exit, stdin, outbuf, stdout, os_name, script_directory,
                  incoming_message, fault, reqs, sent >>

\* lines 90-105: the executable exists and subprocess.run starts it
DownloadSpawn ==
  /\ pc = "dispatch"
  /\ incoming_message.t = "obj"
  /\ IsDownload(incoming_message)
  /\ ~PageUrlInvalid(Get(incoming_message, T_pageUrl))
  /\ ~HasNul(Get(incoming_message, T_pageUrl).s)
  /\ cur' = [cur EXCEPT !.exists = "found", !.spawns = cur.spawns + 1]
  /\ child' =
       [ running |-> TRUE,
         args |-> build_yt_dlp_command(
                    resolve_yt_dlp_path(os_name, script_directory),
                    Get(incoming_message, T_pageUrl).s),
         cwd |-> script_directory ]
  /\ pc' = "wait"
  /\ UNCHANGED << read_exit, stdin, outbuf, stdout, os_name, script_directory,
                  incoming_message, response, fault, reqs, sent >>

\* lines 100-105: the path exists and subprocess.run raises: OSError when the
\* file cannot be executed (no permission, a directory, not a program),
\* ValueError for a null character in the URL
DownloadSpawnRaises ==
  /\ pc = "dispatch"
  /\ incoming_message.t = "obj"
  /\ IsDownload(incoming_message)
  /\ ~PageUrlInvalid(Get(incoming_message, T_pageUrl))
  /\ cur' = [cur EXCEPT !.exists = "found"]
  /\ pc' = "fault"
  /\ fault' = IF HasNul(Get(incoming_message, T_pageUrl).s) THEN "ValueError"
               ELSE "OSError"
  /\ UNCHANGED << read_exit, stdin, outbuf, stdout, os_name, script_directory,
                  incoming_message, response, child, reqs, sent >>

\* a download that failed is tried again until it succeeds
ChildExitsRetriesOnFailure ==
  /\ pc = "wait"
  /\ child.running
  /\ \E rc \in ReturnCodes, out \in StdoutTexts, err \in StderrTexts :
       LET completed_process ==
             [done |-> TRUE, returncode |-> rc, stdout |-> out, stderr |-> err]
       IN /\ cur' = IF rc # 0 THEN Fresh
                    ELSE [cur EXCEPT !.completed = completed_process]
          /\ response' = IF rc # 0 THEN response
                         ELSE CompletedResponse(completed_process)
          /\ pc' = IF rc # 0 THEN "dispatch" ELSE "send"
  /\ child' = [child EXCEPT !.running = FALSE]
  /\ UNCHANGED << read_exit, stdin, outbuf, stdout, os_name, script_directory,
                  incoming_message, fault, reqs, sent >>

\* lines 100-114: the child exits, subprocess.run returns, the response is built
ChildExits ==
  /\ pc = "wait"
  /\ child.running
  /\ \E rc \in ReturnCodes, out \in StdoutTexts, err \in StderrTexts :
       LET completed_process ==
             [done |-> TRUE, returncode |-> rc, stdout |-> out, stderr |-> err]
       IN /\ cur' = [cur EXCEPT !.completed = completed_process]
          /\ response' = CompletedResponse(completed_process)
  /\ child' = [child EXCEPT !.running = FALSE]
  /\ pc' = "send"
  /\ UNCHANGED << read_exit, stdin, outbuf, stdout, os_name, script_directory,
                  incoming_message, fault, reqs, sent >>

\* the length goes out most significant byte first
SendLengthBigEndian ==
  /\ pc = "send"
  /\ outbuf' = outbuf \o ToBytesBig(Len(encoded_payload(response)))
  /\ pc' = "send_payload"
  /\ UNCHANGED << read_exit, stdin, stdout, os_name, script_directory,
                  incoming_message, response, child, cur, fault, reqs, sent >>

\* lines 41-42: the payload is encoded and its length written
SendLength ==
  /\ pc = "send"
  /\ outbuf' = outbuf \o ToBytesLittle(Len(encoded_payload(response)))
  /\ pc' = "send_payload"
  /\ UNCHANGED << read_exit, stdin, stdout, os_name, script_directory, incoming_message,
                  response, child, cur, fault, reqs, sent >>

\* line 43: the payload is written
SendPayload ==
  /\ pc = "send_payload"
  /\ outbuf' = outbuf \o encoded_payload(response)
  /\ pc' = "flush"
  /\ UNCHANGED << read_exit, stdin, stdout, os_name, script_directory, incoming_message,
                  response, child, cur, fault, reqs, sent >>

\* the loop leaves after an error response
AfterSendStopsOnError(r) ==
  IF Get(r, T_status) = JStr(T_error) THEN "done" ELSE "read"

\* where the loop goes once a response is out: back to line 123
AfterSend(r) == "read"

\* line 44, and the loop turns
Flush ==
  /\ pc = "flush"
  /\ stdout' = stdout \o outbuf
  /\ outbuf' = <<>>
  /\ sent' = Append(sent, [request |-> Len(reqs), response |-> response])
  /\ pc' = AfterSend(response)
  /\ UNCHANGED << read_exit, fault, stdin, os_name, script_directory, incoming_message,
                  response, child, cur, reqs >>

Next ==
  \/ ReadMessage
  \/ ReadNone
  \/ ReadRaises
  \/ DispatchRaises
  \/ DispatchUnknown
  \/ DownloadInvalidUrl
  \/ DownloadNotFound
  \/ DownloadSpawn
  \/ DownloadSpawnRaises
  \/ ChildExits
  \/ SendLength
  \/ SendPayload
  \/ Flush

Spec == Init /\ [][Next]_vars

\* where run_native_host can be
Positions ==
  {"read", "dispatch", "wait", "send", "send_payload", "flush", "done", "fault"}

\* the host moves on from where it is; every step of Next is such a move,
\* and one is possible wherever the host has not ended: a read returns or
\* raises, a dispatch answers, spawns or raises, a child that runs can exit,
\* a write and a flush return
Advance == pc \notin {"done", "fault"} /\ pc' \in Positions \ {pc}

\* the host is a running process: it takes the step it is at, the output
\* accepts what is written, and a child that was started exits
FairSpec == Spec /\ WF_pc(Advance)

(***************************************************************************)
(* The framing alone: send_native_message writes frames to a pipe and      *)
(* read_native_message reads them back from it.                            *)
(***************************************************************************)
MaxPipe == 2

RECURSIVE Repeat(_, _)
Repeat(text, n) == IF n = 0 THEN <<>> ELSE text \o Repeat(text, n - 1)

\* text that json.dumps has to escape: a quote, a backslash, a new line, a
\* control character, DEL, and characters beyond ASCII and beyond U+FFFF
T_escapes ==
  <<99, 97, 102, 233, 32, 92, 32, 34, 113, 34, 10, 1, 127, 8364, 128512>>

\* the messages written to the pipe; the long one has a length prefix of
\* more than one byte
PipeMessages ==
  { Response(T_ok, T_Finished),
    NotFoundResponse(resolve_yt_dlp_path("nt", D_nt)),
    Response(T_error, T_escapes),
    Response(T_error, Repeat(T_Finished, 8)),
    DownloadMessage(JStr(U_nul)),
    JObj(<< <<T_escapes, JArr(<< JNum(-30), JNull, JBool(TRUE), JBool(FALSE),
                                JObj(<< <<T_ok, JArr(<<>>)>> >>) >>)>>,
            <<<<>>, JStr(<<>>)>> >>),
    JObj(<<>>) }

PipeInit ==
  /\ stdin = <<>>
  /\ outbuf = <<>>
  /\ stdout = <<>>
  /\ pc = "pipe"
  /\ os_name = "posix"
  /\ script_directory = D_posix
  /\ incoming_message = JNull
  /\ response = JNull
  /\ child = NoChild
  /\ cur = Fresh
  /\ fault = "none"
  /\ read_exit = 0
  /\ reqs = <<>>
  /\ sent = <<>>

\* send_native_message(m): the frame goes into the pipe
PipeWrite ==
  /\ pc = "pipe"
  /\ Len(sent) < MaxPipe
  /\ \E m \in PipeMessages :
       /\ stdin' = stdin \o Frame(m)
       /\ sent' = Append(sent, [request |-> 0, response |-> m])
  /\ UNCHANGED << read_exit, outbuf, stdout, pc, os_name, script_directory,
                  incoming_message, response, child, cur, fault, reqs >>

\* read_native_message() at the other end of the pipe
PipeRead ==
  /\ pc = "pipe"
  /\ stdin # <<>>
  /\ \E r \in {read_native_message(stdin)} :
       /\ stdin' = r.rest
       /\ fault' = r.raised
       /\ read_exit' = r.line
       /\ pc' = IF r.raised # "none" THEN "fault"
                ELSE IF ~r.framed THEN "done" ELSE "pipe"
       /\ reqs' = IF r.raised = "none" /\ r.framed THEN Append(reqs, r.value)
                  ELSE reqs
  /\ UNCHANGED << outbuf, stdout, os_name, script_directory, incoming_message,
                  response, child, cur, sent >>

PipeNext == PipeWrite \/ PipeRead

PipeSpec == PipeInit /\ [][PipeNext]_vars

(***************************************************************************)
(* Properties.                                                             *)
(***************************************************************************)
Status(r) == Get(r, T_status)
Message(r) == Get(r, T_message)

\* the response is computed and being written
Sending == pc \in {"send", "send_payload", "flush"}

\* sub occurs in text
Contains(text, sub) ==
  \E i \in 1..(Len(text) - Len(sub) + 1) : SubSeq(text, i, i + Len(sub) - 1) = sub

AllSpace(s) == \A i \in 1..Len(s) : IsSpace(s[i])

\* t is s without its leading and trailing white space
Trimmed(s, t) ==
  \E i \in 1..(Len(s) + 1) : \E j \in (i - 1)..Len(s) :
    /\ t = SubSeq(s, i, j)
    /\ AllSpace(SubSeq(s, 1, i - 1))
    /\ AllSpace(SubSeq(s, j + 1, Len(s)))
    /\ (i <= j => ~IsSpace(s[i]) /\ ~IsSpace(s[j]))

\* pageUrl is absent, not a string, empty or only white space
BlankPageUrl(m) ==
  IF ~HasKey(m.o, T_pageUrl) THEN TRUE
  ELSE IF Get(m, T_pageUrl).t # "str" THEN TRUE
  ELSE AllSpace(Get(m, T_pageUrl).s)

\* the message is a JSON object whose action is the string "download"
DownloadRequest(m) ==
  IF m.t # "obj" THEN FALSE
  ELSE IF ~HasKey(m.o, T_action) THEN FALSE
  ELSE Get(m, T_action) = JStr(T_download)

\* C1: every message read_native_message returns gets exactly one response,
\* in the order read, and nothing is read while a response is outstanding:
\* reads minus responses is 0 or 1, the i-th response answers the i-th
\* request, a read happens only when every request is answered, and when the
\* host has ended every message it read has its response.
C1_PairedExchange ==
  /\ Len(reqs) - Len(sent) \in {0, 1}
  /\ \A i \in 1..Len(sent) : sent[i].request = i
  /\ pc = "read" => Len(reqs) = Len(sent) /\ outbuf = <<>>
  /\ pc \in {"done", "fault"} => Len(sent) = Len(reqs)

\* C2: what read_native_message returns from the stream send_native_message
\* wrote is each message written, equal in key set and values, in the order
\* written, none lost and none refused.
C2_FramingRoundTrip ==
  /\ pc = "pipe"
  /\ Len(reqs) <= Len(sent)
  /\ \A i \in 1..Len(reqs) : JEq(reqs[i], sent[i].response)
  /\ stdin = <<>> => Len(reqs) = Len(sent)

C2_Witness ==
  /\ Len(reqs) = 2
  /\ stdin = <<>>
  /\ Message(reqs[1]) = JStr(T_escapes)
  /\ Message(reqs[2]) = JStr(Repeat(T_Finished, 8))

\* C3: once a frame is decoded, the host never ends in an unhandled fault:
\* the only fault is the decode failure, raised with every decoded message
\* answered.
C3_OnlyDecodeFaults ==
  pc = "fault" =>
    /\ fault \in {"UnicodeDecodeError", "JSONDecodeError"}
    /\ Len(sent) = Len(reqs)

\* C4: a download request whose pageUrl is absent, not a string, empty or
\* only white space is answered with exactly the missing-URL error, and the
\* file system is not even asked whether the downloader exists.
C4_MissingPageUrl ==
  /\ \A i \in 1..Len(sent) :
       DownloadRequest(reqs[i]) /\ BlankPageUrl(reqs[i]) =>
         sent[i].response = Response(T_error, T_MissingUrl)
  /\ DownloadRequest(incoming_message) /\ BlankPageUrl(incoming_message) =>
       /\ pc # "wait"
       /\ fault \in {"none", "UnicodeDecodeError", "JSONDecodeError"}
       /\ cur = Fresh
       /\ Sending => response = Response(T_error, T_MissingUrl)

C4_Witness ==
  /\ Len(sent) = 2
  /\ reqs[1] = DownloadMessage(JStr(U_blank))
  /\ reqs[2] = JObj(<< <<T_action, JStr(T_download)>> >>)
  /\ sent[2].response = Response(T_error, T_MissingUrl)

\* C5: a child is spawned only for a download request with a non-blank
\* string pageUrl after the downloader was found to exist, never after it was
\* found missing, and at most once per request.
C5_SpawnOnlyForValidDownload ==
  /\ cur.spawns <= 1
  /\ child.running => cur.spawns = 1 /\ pc = "wait"
  /\ cur.spawns = 1 =>
       /\ DownloadRequest(incoming_message)
       /\ ~BlankPageUrl(incoming_message)
       /\ cur.exists = "found"
  /\ cur.completed.done => cur.spawns = 1

C5_Witness ==
  /\ child.running
  /\ cur.spawns = 1
  /\ Len(reqs) = 2
  /\ ~DownloadRequest(reqs[1])

\* C6: when the downloader is missing for a download request with a valid
\* pageUrl, the response is an error whose message contains the resolved
\* path, no fault follows, and after the response the host awaits the next
\* request.
C6_ExecutableNotFound ==
  cur.exists = "missing" =>
    /\ DownloadRequest(incoming_message)
    /\ ~BlankPageUrl(incoming_message)
    /\ pc \in {"send", "send_payload", "flush", "read"}
    /\ Status(response) = JStr(T_error)
    /\ Message(response).t = "str"
    /\ Contains(Message(response).s,
                script_directory \o
                  (IF os_name = "nt" THEN <<92>> \o T_ytdlp_exe
                   ELSE <<47>> \o T_ytdlp))
    /\ pc = "read" => sent[Len(sent)].response = response

C6_Witness ==
  /\ cur.exists = "missing"
  /\ pc = "read"
  /\ Len(sent) = 2
  /\ os_name = "nt"

\* C7: after a non-zero exit the response is an error whose message is the
\* trimmed stderr if that is not empty, else the trimmed stdout if that is
\* not empty, else the fallback text; it is never empty.
C7_ChildFailureMessage ==
  cur.completed.done /\ cur.completed.returncode # 0 =>
    /\ Status(response) = JStr(T_error)
    /\ Message(response).t = "str"
    /\ Message(response).s # <<>>
    /\ IF ~AllSpace(cur.completed.stderr)
       THEN Trimmed(cur.completed.stderr, Message(response).s)
       ELSE IF ~AllSpace(cur.completed.stdout)
       THEN Trimmed(cur.completed.stdout, Message(response).s)
       ELSE Message(response).s = T_UnknownError

C7_Witness ==
  /\ pc = "flush"
  /\ cur.completed.done
  /\ cur.completed.returncode # 0
  /\ ~AllSpace(cur.completed.stderr)
  /\ ~AllSpace(cur.completed.stdout)

\* C8: the response is "ok" exactly when a child was spawned for the request
\* and exited with status zero, and then its message is the fixed text,
\* whatever the child printed.
C8_OkIffChildSucceeded ==
  /\ response # JNull =>
       /\ Status(response) = JStr(T_ok) <=>
            cur.spawns = 1 /\ cur.completed.done /\ cur.completed.returncode = 0
       /\ Status(response) = JStr(T_ok) => response = Response(T_ok, T_Finished)
  /\ \A i \in 1..Len(sent) :
       Status(sent[i].response) = JStr(T_ok) =>
         /\ sent[i].response = Response(T_ok, T_Finished)
         /\ DownloadRequest(reqs[i])

C8_Witness ==
  /\ pc = "flush"
  /\ Status(response) = JStr(T_ok)
  /\ cur.completed.stdout # <<>>
  /\ ~AllSpace(cur.completed.stderr)

\* C9: a decoded message (a JSON object) whose action is anything but the
\* string "download", missing and null included, is answered with exactly
\* the unknown-action error, whatever else it carries; nothing is looked up
\* or spawned for it.
C9_UnknownAction ==
  /\ \A i \in 1..Len(sent) :
       reqs[i].t = "obj" /\ ~DownloadRequest(reqs[i]) =>
         sent[i].response = Response(T_error, T_UnknownAction)
  /\ incoming_message.t = "obj" /\ ~DownloadRequest(incoming_message) =>
       /\ pc # "wait"
       /\ fault \in {"none", "UnicodeDecodeError", "JSONDecodeError"}
       /\ cur = Fresh
       /\ Sending => response = Response(T_error, T_UnknownAction)

C9_Witness ==
  /\ Len(sent) = 2
  /\ reqs[1] = JObj(<<>>)
  /\ reqs[2] = JObj(<< <<T_action, JNull>>, <<T_pageUrl, JStr(U_x)>> >>)
  /\ sent[2].response = Response(T_error, T_UnknownAction)

\* what the dispatcher answers to an object m, given what the file system
\* and the child did for this one request, and nothing else
Owed(m, c) ==
  IF ~DownloadRequest(m) THEN Response(T_error, T_UnknownAction)
  ELSE IF BlankPageUrl(m) THEN Response(T_error, T_MissingUrl)
  ELSE IF c.exists = "missing" THEN
    NotFoundResponse(resolve_yt_dlp_path(os_name, script_directory))
  ELSE CompletedResponse(c.completed)

\* C10: an error response never ends the session: once it is flushed the
\* host is back at reading the next request with the stream untouched, and
\* each request, the first or a later one, gets the response its own message
\* and its own environment call for, whatever was answered before it.
C10_ErrorDoesNotEndSession ==
  /\ [](Sending => response = Owed(incoming_message, cur))
  /\ [][pc = "flush" /\ Status(response) = JStr(T_error) =>
          pc' = "read" /\ stdin' = stdin /\ Len(sent') = Len(reqs')]_vars

C10_Witness ==
  /\ Len(sent) = 2
  /\ Status(sent[1].response) = JStr(T_error)
  /\ Status(sent[2].response) = JStr(T_ok)

\* the stream ends inside a frame: fewer than four bytes where a length
\* prefix is due, or fewer payload bytes than the prefix announces
Truncated(in) ==
  IF Len(in) < 4 THEN TRUE
  ELSE in[1] + 256 * in[2] + 65536 * in[3] + 16777216 * in[4] > Len(in) - 4

\* C11: when the stream ends with fewer than four bytes where a length
\* prefix is due (none at all included) or with fewer payload bytes than
\* announced, the read yields "no message" without raising and the loop ends
\* normally: nothing is written for the partial frame, no child is spawned,
\* and reading the exhausted stream again yields "no message" again.
C11_TruncationEndsLoop ==
  /\ [](pc = "done" => fault = "none" /\ ~child.running /\ outbuf = <<>>)
  /\ [][pc = "read" /\ Truncated(stdin) =>
          /\ pc' = "done"
          /\ read_exit' \in {21, 29}
          /\ fault' = "none"
          /\ stdin' = <<>>
          /\ reqs' = reqs /\ sent' = sent /\ stdout' = stdout /\ outbuf' = outbuf
          /\ child' = child /\ cur'.spawns = 0
          /\ read_native_message(stdin').raised = "none"
          /\ read_native_message(stdin').value = JNull
          /\ read_native_message(stdin').rest = <<>>]_vars

C11_Witness ==
  /\ pc = "done"
  /\ read_exit = 29
  /\ stdin = <<>>
  /\ Len(sent) = 1
  /\ stdout # <<>>

\* the next four bytes of the stream are a length prefix of zero
ZeroLength(in) ==
  IF Len(in) < 4 THEN FALSE ELSE SubSeq(in, 1, 4) = <<0, 0, 0, 0>>

\* C12: a frame whose length prefix is zero yields "no message" and ends the
\* loop as the end of the stream does: silently, with no response for it, and
\* the frames that follow it are never read or answered, for once the loop
\* has ended the host takes no further step.
C12_ZeroLengthEndsLoop ==
  /\ [][pc = "read" /\ ZeroLength(stdin) =>
          /\ pc' = "done"
          /\ read_exit' = 25
          /\ fault' = "none"
          /\ stdin' = SubSeq(stdin, 5, Len(stdin))
          /\ reqs' = reqs /\ sent' = sent /\ stdout' = stdout /\ outbuf' = outbuf
          /\ child' = child /\ cur'.spawns = 0]_vars
  /\ [][pc # "done"]_vars

C12_Witness ==
  /\ pc = "done"
  /\ read_exit = 25
  /\ stdin = RawFrame(CompactDownload)
  /\ reqs = <<>>
  /\ stdout = <<>>

\* the stream holds a whole frame of one byte or more whose payload is not
\* UTF-8 or not JSON
Malformed(in) ==
  IF Len(in) < 4 THEN FALSE
  ELSE
    LET Bad(text) == IF ~text.ok THEN TRUE ELSE ~Loads(text.s).ok
        Whole(message_length) ==
          IF message_length = 0 \/ Len(in) - 4 < message_length THEN FALSE
          ELSE Bad(Utf8Decode(SubSeq(in, 5, 4 + message_length)))
    IN Whole(in[1] + 256 * in[2] + 65536 * in[3] + 16777216 * in[4])

\* C13: a whole frame whose payload is not valid UTF-8 or not valid JSON is
\* fatal and not swallowed: the host ends in a fault, writes nothing for that
\* frame, spawns nothing, and takes no step after it, so no further frame is
\* read and what was written before stays as it was.
C13_MalformedPayloadIsFatal ==
  /\ [][pc = "read" /\ Malformed(stdin) =>
          /\ pc' = "fault"
          /\ fault' \in {"UnicodeDecodeError", "JSONDecodeError"}
          /\ reqs' = reqs /\ sent' = sent /\ stdout' = stdout /\ outbuf' = outbuf
          /\ child' = child /\ cur'.spawns = 0]_vars
  /\ [][pc # "fault"]_vars

C13_Witness ==
  /\ pc = "fault"
  /\ fault = "UnicodeDecodeError"
  /\ Len(sent) = 1
  /\ stdout = Frame(sent[1].response)

\* r is an object of exactly the fields status and message, the status "ok"
\* or "error", the message a string of one character or more
WellFormedResponse(r) ==
  IF r.t # "obj" THEN FALSE
  ELSE IF Len(r.o) # 2 THEN FALSE
  ELSE IF {r.o[1][1], r.o[2][1]} # {T_status, T_message} THEN FALSE
  ELSE IF Status(r) \notin {JStr(T_ok), JStr(T_error)} THEN FALSE
  ELSE IF Message(r).t # "str" THEN FALSE
  ELSE Len(Message(r).s) > 0

\* C14: every message the host writes, on every dispatch path, is an object
\* with exactly the two fields status and message, the status "ok" or
\* "error" and the message a non-empty string.
C14_ResponseShape ==
  /\ \A i \in 1..Len(sent) : WellFormedResponse(sent[i].response)
  /\ Sending => WellFormedResponse(response)

C14_Witness ==
  /\ pc = "flush"
  /\ cur.completed.done
  /\ cur.completed.returncode # 0
  /\ AllSpace(cur.completed.stderr)
  /\ cur.completed.stderr # <<>>
  /\ cur.completed.stdout = <<>>
  /\ Len(sent) = 1
  /\ sent[1].response = Response(T_error, T_UnknownAction)

\* n as four bytes, least significant first
LittleEndian4(n) ==
  << n % 256, (n \div 256) % 256, (n \div 65536) % 256, (n \div 16777216) % 256 >>

\* the count of frames b is made of, each a four-byte little-endian count
\* below 2^24 and that many bytes; -1 when b ends inside a prefix or a payload
RECURSIVE WholeFrames(_)
WholeFrames(b) ==
  IF b = <<>> THEN 0
  ELSE IF Len(b) < 4 THEN -1
  ELSE IF b[4] # 0 \/ Len(b) < 4 + b[1] + 256 * b[2] + 65536 * b[3] THEN -1
  ELSE LET Count(rest) == IF rest < 0 THEN -1 ELSE rest + 1
       IN Count(WholeFrames(
                  SubSeq(b, 5 + b[1] + 256 * b[2] + 65536 * b[3], Len(b))))

\* the bytes of one response: its JSON text in UTF-8 behind the four-byte
\* little-endian count of those bytes
FrameOf(r) ==
  LET Framed(payload) == LittleEndian4(Len(payload)) \o payload
  IN Framed(Utf8Encode(Dumps(r)))

\* C15: for every response the host writes the four-byte little-endian count
\* of the bytes of the UTF-8 JSON payload, then exactly those bytes, then
\* flushes: the peer receives bytes only at the flush, and then the whole
\* frame of the response at once; so what the peer sees is at all times,
\* and whenever the host starts to read, one whole frame per response sent,
\* never a prefix without its payload or a part of a payload.
C15_WholeFramesOnly ==
  /\ [](/\ WholeFrames(stdout) = Len(sent)
        /\ pc \in {"read", "dispatch", "wait", "send", "done", "fault"} =>
             outbuf = <<>>
        /\ pc = "send_payload" => Len(outbuf) = 4)
  /\ [][pc = "send_payload" => SubSeq(outbuf', 1, 4) = outbuf]_vars
  /\ [][pc = "flush" =>
          /\ outbuf = FrameOf(response)
          /\ stdout' = stdout \o outbuf
          /\ outbuf' = <<>>
          /\ sent' = Append(sent, [request |-> Len(reqs), response |-> response])]_vars
  /\ [][pc # "flush" => stdout' = stdout /\ sent' = sent]_vars

C15_Witness ==
  /\ pc = "read"
  /\ Len(sent) = 2
  /\ Status(sent[1].response) = JStr(T_ok)
  /\ sent[2].response = NotFoundResponse(resolve_yt_dlp_path("nt", D_nt))
  /\ Len(stdout) > 100

\* C16: whenever a child is spawned its arguments are exactly the resolved
\* path of the downloader, "--cookies-from-browser", "chrome" and the
\* request's pageUrl as it arrived, white space around it included, and its
\* working directory is the directory of the host.
C16_ChildCommand ==
  cur.spawns = 1 =>
    /\ Len(child.args) = 4
    /\ child.args[1] =
         script_directory \o
           (IF os_name = "nt" THEN <<92>> \o T_ytdlp_exe ELSE <<47>> \o T_ytdlp)
    /\ child.args[2] =
         << 45, 45, 99, 111, 111, 107, 105, 101, 115, 45, 102, 114, 111, 109,
            45, 98, 114, 111, 119, 115, 101, 114 >>
    /\ child.args[3] = <<99, 104, 114, 111, 109, 101>>
    /\ child.args[4] = Get(incoming_message, T_pageUrl).s
    /\ child.args[4] = Get(reqs[Len(reqs)], T_pageUrl).s
    /\ child.cwd = script_directory

C16_Witness ==
  /\ child.running
  /\ cur.spawns = 1
  /\ os_name = "nt"
  /\ Len(reqs) = 2
  /\ child.args[4] = U_padded

\* C17: downloads never overlap and the child is finished before the reply:
\* the children spawned for a request are the one running plus the one
\* reaped, never more than one; while a child runs the host only waits,
\* reading and writing nothing; and the response to a request that spawned a
\* child is written only once that child has exited and been reaped, whatever
\* its exit status.
C17_ChildFinishedBeforeReply ==
  /\ [](/\ cur.spawns =
             (IF child.running THEN 1 ELSE 0) + (IF cur.completed.done THEN 1 ELSE 0)
        /\ cur.spawns <= 1
        /\ child.running => pc = "wait" /\ outbuf = <<>> /\ response = JNull
        /\ Sending /\ cur.spawns = 1 => ~child.running /\ cur.completed.done)
  /\ [][child.running \/ child'.running =>
          stdin' = stdin /\ stdout' = stdout /\ outbuf' = outbuf /\ sent' = sent]_vars
  /\ [][sent' # sent /\ cur.spawns = 1 => ~child.running /\ cur.completed.done]_vars

C17_Witness ==
  /\ pc = "flush"
  /\ cur.completed.done
  /\ cur.completed.returncode # 0
  /\ ~child.running
  /\ Len(sent) = 1
  /\ Status(sent[1].response) = JStr(T_ok)

\* C18: no silent hang: every request that was read and decoded, and already
\* every one that is a JSON object, is eventually followed by its response
\* being written, given that the host keeps running, the output accepts the
\* write and a child that was started exits.
C18_EveryRequestAnswered ==
  \A n \in 1..MaxFrames :
    (Len(reqs) = n /\ reqs[n].t = "obj") ~> (Len(sent) >= n)

\* C19: read_native_message signals "no message" only for the three framing
\* cases, a short prefix (line 21), a length of zero (line 25) and a short
\* payload (line 29); a whole frame of valid UTF-8 JSON, whatever its value,
\* is delivered to the dispatcher and does not end the loop, so a loop that
\* has ended normally was ended by one of those three returns.
C19_NoMessageOnlyForFraming ==
  pc = "done" => read_exit \in {21, 25, 29}

\* read_native_message returns None on what is left of the stream
NoMessage(in) ==
  \E r \in {read_native_message(in)} : r.raised = "none" /\ r.value = JNull

\* C20: on a finite stream that is closed, with every child exiting, the
\* loop of the host ends, normally or by a fault; it ends normally exactly
\* on the step that reads the first "no message", and then without fault,
\* with as many responses written as messages read and nothing half written.
C20_LoopTerminates ==
  /\ <>(pc \in {"done", "fault"})
  /\ [][pc' = "done" <=> pc = "read" /\ NoMessage(stdin)]_vars
  /\ [](pc = "done" =>
          /\ fault = "none"
          /\ read_exit \in {21, 25, 29, 31}
          /\ Len(sent) = Len(reqs)
          /\ \A i \in 1..Len(sent) : sent[i].request = i
          /\ outbuf = <<>>
          /\ ~child.running)

C20_Witness ==
  /\ pc = "done"
  /\ read_exit = 21
  /\ Len(reqs) = 2
  /\ Len(sent) = 2
  /\ Status(sent[1].response) = JStr(T_ok)
  /\ Status(sent[2].response) = JStr(T_error)
====
